---------------------------- MODULE Spec2Model ----------------------------
(***************************************************************************)
(* The POST /upload handler of backend/main.py (upload_file, lines 31-89)  *)
(* as a state machine: one step per statement that can fail or that calls  *)
(* a provider.  Texts are sequences of one-character strings and bytes are *)
(* sequences of integers, so that startswith, the f-strings and b"".join   *)
(* are computed and not assumed.                                           *)
(***************************************************************************)
EXTENDS Integers, Sequences, FiniteSets, TLC

\* ------------------------------------------------------------------ bounds
\* Number of requests in flight against the one module.
NumRequests == 2
\* Longest chunk sequence the synthesis generator yields.
MaxChunks == 2

\* ------------------------------------------------------------------ state
VARIABLES
    llm_defined,  \* whether the module global llm is bound (line 73 reads it)
    llm,          \* the language-model service a bound llm reaches
    transcriber,  \* the transcription provider (aai.Transcriber, line 51)
    elevenlabs,   \* the synthesis provider (module global, lines 15-17)
    req           \* per request: the locals of upload_file and its position

vars == <<llm_defined, llm, transcriber, elevenlabs, req>>

\* ---------------------------------------------------------------- literals
\* line 40: the prefix content_type.startswith tests
AudioPrefix ==
    <<"a", "u", "d", "i", "o", "/">>
\* line 40: the only member of the accepted list
OctetStream ==
    <<"a", "p", "p", "l", "i", "c", "a", "t", "i", "o", "n", "/", "o", "c",
      "t", "e", "t", "-", "s", "t", "r", "e", "a", "m">>
\* line 41: the detail before the content type
FileTypePrefix ==
    <<"F", "i", "l", "e", " ", "t", "y", "p", "e", " ", "'">>
\* line 41: the detail after the content type
FileTypeSuffix ==
    <<"'", " ", "m", "a", "y", " ", "n", "o", "t", " ", "b", "e", " ", "s",
      "u", "p", "p", "o", "r", "t", "e", "d", ".", " ", "T", "r", "y", " ",
      "u", "p", "l", "o", "a", "d", "i", "n", "g", " ", "a", " ", ".", "w",
      "a", "v", ",", " ", ".", "m", "p", "3", ",", " ", "o", "r", " ", ".",
      "w", "e", "b", "m", " ", "f", "i", "l", "e", ".">>
\* line 47
EmptyDetail ==
    <<"U", "p", "l", "o", "a", "d", "e", "d", " ", "f", "i", "l", "e", " ",
      "i", "s", " ", "e", "m", "p", "t", "y">>
\* line 68
TranscriptionFailedPrefix ==
    <<"T", "r", "a", "n", "s", "c", "r", "i", "p", "t", "i", "o", "n", " ",
      "f", "a", "i", "l", "e", "d", ":", " ">>
\* line 72
PromptTemplate ==
    <<"S", "u", "m", "m", "a", "r", "i", "z", "e", " ", "t", "h", "i", "s",
      " ", "i", "n", " ", "o", "n", "e", " ", "v", "e", "r", "y", " ", "s",
      "h", "o", "r", "t", " ", "s", "e", "n", "t", "e", "n", "c", "e", ":",
      "\n", "\n">>
\* line 89
InternalErrorPrefix ==
    <<"I", "n", "t", "e", "r", "n", "a", "l", " ", "s", "e", "r", "v", "e",
      "r", " ", "e", "r", "r", "o", "r", ":", " ">>
\* line 73: str() of the NameError the unbound global raises
NameErrorMessage ==
    <<"n", "a", "m", "e", " ", "'", "l", "l", "m", "'", " ", "i", "s", " ",
      "n", "o", "t", " ", "d", "e", "f", "i", "n", "e", "d">>
\* what an f-string renders None as
NoneStr ==
    <<"N", "o", "n", "e">>
\* sample content types and texts
AudioWav ==
    <<"a", "u", "d", "i", "o", "/", "w", "a", "v">>
AudioOnly ==
    <<"a", "u", "d", "i", "o", "/">>
AudioNoSlash ==
    <<"a", "u", "d", "i", "o">>
AudioUpper ==
    <<"A", "u", "d", "i", "o", "/", "w", "a", "v">>
OctetStreamCharset ==
    <<"a", "p", "p", "l", "i", "c", "a", "t", "i", "o", "n", "/", "o", "c",
      "t", "e", "t", "-", "s", "t", "r", "e", "a", "m", ";", " ", "c", "h",
      "a", "r", "s", "e", "t", "=", "b", "i", "n", "a", "r", "y">>
TextPlain ==
    <<"t", "e", "x", "t", "/", "p", "l", "a", "i", "n">>
HelloThere ==
    <<"H", "e", "l", "l", "o", " ", "t", "h", "e", "r", "e">>
DiagD ==
    <<"D">>
Boom ==
    <<"b", "o", "o", "m">>
ShortSummary ==
    <<"o", "k">>

\* Python's None where a text is expected: a one-element sequence whose
\* element is no character, so it equals no text.
NoneT == <<"<None>">>

\* -------------------------------------------------------- pure operations
\* s.startswith(p)
StartsWith(s, p) == Len(s) >= Len(p) /\ SubSeq(s, 1, Len(p)) = p

\* sub in s (used by the properties)
Contains(s, sub) ==
    \E i \in 0..(Len(s) - Len(sub)) : SubSeq(s, i + 1, i + Len(sub)) = sub

\* What an f-string puts for {x}: the text itself, "None" for None.
Str(x) == IF x = NoneT THEN NoneStr ELSE x

\* Truthiness of an Optional[str]: None and "" are false.
Truthy(x) == x # NoneT /\ x # <<>>

\* Mutant of Accepted: the prefix is tested without its slash.
AcceptedNoSlash(content_type) ==
    StartsWith(content_type, AudioNoSlash) \/ content_type \in {OctetStream}

\* line 40, the condition under `not`: the declared type is accepted.
Accepted(content_type) ==
    StartsWith(content_type, AudioPrefix) \/ content_type \in {OctetStream}

\* line 40, the whole condition of the if.
Rejected(content_type) == Truthy(content_type) /\ ~Accepted(content_type)

\* line 41
UnsupportedDetail(content_type) ==
    FileTypePrefix \o content_type \o FileTypeSuffix

\* Mutant of IsEmpty: `file_bytes is None`, which read() never returns.
IsEmptyIsNone(file_bytes) == FALSE

\* line 46: len(file_bytes) == 0
IsEmpty(file_bytes) == Len(file_bytes) = 0

\* Mutant of IsError: the status is compared with a value it never takes.
IsErrorFailed(status) == status = "failed"

\* Mutant of IsError: every status but completed counts as an error.
IsErrorNotCompleted(status) == status # "completed"

\* line 66: transcript.status == aai.TranscriptStatus.error
IsError(status) == status = "error"

\* line 68
TranscriptionFailedDetail(error) == TranscriptionFailedPrefix \o Str(error)

\* line 72
Prompt(transcript_text) == PromptTemplate \o Str(transcript_text)

\* Mutant of Join: the chunks are joined last first.
RECURSIVE JoinReversed(_)
JoinReversed(chunks) ==
    IF chunks = <<>> THEN <<>> ELSE JoinReversed(Tail(chunks)) \o Head(chunks)

\* Mutant of Join: the chunks go into one buffer all requests share, which
\* already holds the audio of the requests that joined before.
RECURSIVE JoinAll(_)
JoinAll(chunks) ==
    IF chunks = <<>> THEN <<>> ELSE Head(chunks) \o JoinAll(Tail(chunks))
JoinShared(chunks) ==
    IF \E s \in DOMAIN req : req[s].audio # <<>>
    THEN LET s == CHOOSE s \in DOMAIN req : req[s].audio # <<>>
         IN req[s].audio \o JoinAll(chunks)
    ELSE JoinAll(chunks)

\* line 81: b"".join(audio_generator), over the chunks yielded so far.
RECURSIVE Join(_)
Join(chunks) ==
    IF chunks = <<>> THEN <<>> ELSE Head(chunks) \o Join(Tail(chunks))

\* ------------------------------------------------------------ exceptions
NoExc == [kind |-> "none", status_code |-> 0, detail |-> <<>>]

\* HTTPException(status_code=..., detail=...)
HTTPException(status_code, detail) ==
    [kind |-> "HTTPException", status_code |-> status_code, detail |-> detail]

\* Any Exception that is no HTTPException; detail holds str(e).
Exception(message) ==
    [kind |-> "Exception", status_code |-> 0, detail |-> message]

\* line 73 with the global llm unbound: NameError is an Exception.
NameError == [kind |-> "NameError", status_code |-> 0, detail |-> NameErrorMessage]

\* ------------------------------------------------------------- responses
NoResult ==
    [status_code |-> 0, media_type |-> "none", body |-> <<>>, detail |-> <<>>]

\* line 82: StreamingResponse(io.BytesIO(audio), media_type="audio/mpeg")
StreamingResponse(audio) ==
    [status_code |-> 200, media_type |-> "audio/mpeg", body |-> audio,
     detail |-> <<>>]

\* What the framework sends for an HTTPException leaving the handler.
ErrorResponse(e) ==
    [status_code |-> e.status_code, media_type |-> "application/json",
     body |-> <<>>, detail |-> e.detail]

\* Mutant of InternalError: the message of the exception is left out.
InternalErrorNoMessage(e) == [kind |-> "HTTPException", status_code |-> 500,
                              detail |-> InternalErrorPrefix]

\* line 89: the HTTPException built from a caught Exception e.
InternalError(e) == HTTPException(500, InternalErrorPrefix \o e.detail)

\* Mutant of Handle: the `except HTTPException: raise` clause is missing.
HandleRewrap(e) ==
    [kind |-> "HTTPException", status_code |-> 500,
     detail |-> InternalErrorPrefix \o e.detail]

\* lines 84-89: the two except clauses, as the exception that leaves the
\* handler for the exception e raised in the try block.
Handle(e) == IF e.kind = "HTTPException" THEN e ELSE InternalError(e)

\* Mutant of AfterStatus: a failed transcription is tried again.
AfterStatusRetry(status) == IF status = "error" THEN "transcribe" ELSE "prompt"

\* lines 66-73: where control goes after the status test.
AfterStatus(status) == IF IsError(status) THEN "except" ELSE "prompt"

\* ------------------------------------------------------------ environment
Requests == 1..NumRequests

\* Declared content types: absent, empty, accepted ones and rejected ones
\* (no slash, wrong case, the accepted label with a parameter after it).
ContentTypes ==
    {NoneT, <<>>, AudioWav, AudioOnly, OctetStream,
     AudioNoSlash, AudioUpper, OctetStreamCharset, TextPlain}

\* Upload bodies, as bytes.
Uploads == {<<>>, <<82>>, <<82, 73>>}

\* Chunks the synthesis generator can yield: b"AB", b"CD", b"".
ChunkAB == <<65, 66>>
ChunkCD == <<67, 68>>
Chunks == {ChunkAB, ChunkCD, <<>>}
ChunkSeqs == UNION {[1..n -> Chunks] : n \in 0..MaxChunks}

\* What transcriber.transcribe does (line 61): raise, or return a transcript
\* with one of the four values of aai.TranscriptStatus.
Transcribers ==
    {[raises |-> FALSE, message |-> <<>>, status |-> "completed",
      text |-> t, error |-> NoneT] : t \in {HelloThere, <<>>, NoneT}}
    \cup
    {[raises |-> FALSE, message |-> <<>>, status |-> "error",
      text |-> NoneT, error |-> e] : e \in {DiagD, Boom, NoneT}}
    \cup
    {[raises |-> FALSE, message |-> <<>>, status |-> s,
      text |-> t, error |-> NoneT] :
        s \in {"queued", "processing"}, t \in {HelloThere, NoneT}}
    \cup
    {[raises |-> TRUE, message |-> Boom, status |-> "error",
      text |-> NoneT, error |-> NoneT]}

\* The language-model service behind llm.invoke (line 73): it echoes the
\* prompt, answers a fixed text, or raises with message text.
LlmServices ==
    {[kind |-> "echo", text |-> <<>>], [kind |-> "fixed", text |-> ShortSummary],
     [kind |-> "raise", text |-> Boom], [kind |-> "raise", text |-> <<>>]}

\* What elevenlabs.text_to_speech.convert does (lines 75-81): raise at the
\* call, or return a generator that yields chunks and then ends or raises.
Synthesizers ==
    {[raises |-> "no", message |-> <<>>, chunks |-> c] : c \in ChunkSeqs}
    \cup
    {[raises |-> "call", message |-> Boom, chunks |-> <<>>]}
    \cup
    {[raises |-> "iter", message |-> Boom, chunks |-> c] :
        c \in {<<>>, <<ChunkAB>>}}

\* ------------------------------------------------------ request records
NoTranscript == [status |-> "none", text |-> NoneT, error |-> NoneT]
NoGenerator == [chunks |-> <<>>, fails |-> FALSE, message |-> <<>>]

\* The locals at entry to upload_file (line 32); `calls` logs the provider
\* calls of the request in the order they are made.
NewRequest(content_type, upload) ==
    [pc |-> "validate", content_type |-> content_type, upload |-> upload,
     body_read |-> FALSE, file_bytes |-> <<>>, transcript |-> NoTranscript,
     prompt |-> <<>>, response |-> <<>>, audio_generator |-> NoGenerator,
     audio |-> <<>>, exc |-> NoExc, result |-> NoResult, calls |-> <<>>]

\* A slot no request arrives on.
Absent == [NewRequest(NoneT, <<>>) EXCEPT !.pc = "absent"]

\* One request against the module as written (llm unbound) or with llm bound
\* by whatever imports the module, under every provider behaviour.
Init ==
    /\ llm_defined \in BOOLEAN
    /\ llm \in LlmServices
    /\ transcriber \in Transcribers
    /\ elevenlabs \in Synthesizers
    /\ \E ct \in ContentTypes, up \in Uploads :
          req = [r \in Requests |-> IF r = 1 THEN NewRequest(ct, up) ELSE Absent]

\* Every slot holds a request; the providers are deterministic stubs.
ConcurrentContentTypes == {AudioWav, TextPlain}
ConcurrentUploads == {<<>>, <<82>>}
InitConcurrent ==
    /\ llm_defined \in BOOLEAN
    /\ llm = [kind |-> "echo", text |-> <<>>]
    /\ transcriber \in
          {t \in Transcribers : ~t.raises /\ t.status \in {"completed", "error"}
                                /\ t.text # <<>> /\ t.error # Boom}
    /\ elevenlabs = [raises |-> "no", message |-> <<>>, chunks |-> <<ChunkAB, ChunkCD>>]
    /\ req \in [Requests -> {NewRequest(ct, up) :
                    ct \in ConcurrentContentTypes, up \in ConcurrentUploads}]

\* ---------------------------------------------------------------- actions
Set(r, rec) == req' = [req EXCEPT ![r] = rec]
Env == <<llm_defined, llm, transcriber, elevenlabs>>

\* lines 40-41
Validate(r) ==
    /\ req[r].pc = "validate"
    /\ IF Rejected(req[r].content_type)
       THEN Set(r, [req[r] EXCEPT
                !.exc = HTTPException(400, UnsupportedDetail(req[r].content_type)),
                !.pc = "except"])
       ELSE Set(r, [req[r] EXCEPT !.pc = "read"])
    /\ UNCHANGED Env

\* line 43
Read(r) ==
    /\ req[r].pc = "read"
    /\ Set(r, [req[r] EXCEPT !.file_bytes = req[r].upload,
                             !.body_read = TRUE, !.pc = "check_empty"])
    /\ UNCHANGED Env

\* lines 46-47
CheckEmpty(r) ==
    /\ req[r].pc = "check_empty"
    /\ IF IsEmpty(req[r].file_bytes)
       THEN Set(r, [req[r] EXCEPT !.exc = HTTPException(400, EmptyDetail),
                                  !.pc = "except"])
       ELSE Set(r, [req[r] EXCEPT !.pc = "transcribe"])
    /\ UNCHANGED Env

\* lines 51-61
Transcribe(r) ==
    /\ req[r].pc = "transcribe"
    /\ IF transcriber.raises
       THEN Set(r, [req[r] EXCEPT
                !.calls = Append(req[r].calls, "transcription"),
                !.exc = Exception(transcriber.message), !.pc = "except"])
       ELSE Set(r, [req[r] EXCEPT
                !.calls = Append(req[r].calls, "transcription"),
                !.transcript = [status |-> transcriber.status,
                                text |-> transcriber.text,
                                error |-> transcriber.error],
                !.pc = "check_status"])
    /\ UNCHANGED Env

\* lines 66-68
CheckStatus(r) ==
    /\ req[r].pc = "check_status"
    /\ IF IsError(req[r].transcript.status)
       THEN Set(r, [req[r] EXCEPT
                !.exc = HTTPException(500,
                            TranscriptionFailedDetail(req[r].transcript.error)),
                !.pc = AfterStatus(req[r].transcript.status)])
       ELSE Set(r, [req[r] EXCEPT !.pc = AfterStatus(req[r].transcript.status)])
    /\ UNCHANGED Env

\* lines 71-72
BuildPrompt(r) ==
    /\ req[r].pc = "prompt"
    /\ Set(r, [req[r] EXCEPT !.prompt = Prompt(req[r].transcript.text),
                             !.pc = "summarize"])
    /\ UNCHANGED Env

\* line 73: evaluating the name llm raises NameError when it is unbound, and
\* then nothing is called.
Summarize(r) ==
    /\ req[r].pc = "summarize"
    /\ IF ~llm_defined
       THEN Set(r, [req[r] EXCEPT !.exc = NameError, !.pc = "except"])
       ELSE IF llm.kind = "raise"
       THEN Set(r, [req[r] EXCEPT
                !.calls = Append(req[r].calls, "summarization"),
                !.exc = Exception(llm.text), !.pc = "except"])
       ELSE Set(r, [req[r] EXCEPT
                !.calls = Append(req[r].calls, "summarization"),
                !.response = IF llm.kind = "echo" THEN req[r].prompt ELSE llm.text,
                !.pc = "synthesize"])
    /\ UNCHANGED Env

\* lines 75-80
Synthesize(r) ==
    /\ req[r].pc = "synthesize"
    /\ IF elevenlabs.raises = "call"
       THEN Set(r, [req[r] EXCEPT
                !.calls = Append(req[r].calls, "synthesis"),
                !.exc = Exception(elevenlabs.message), !.pc = "except"])
       ELSE Set(r, [req[r] EXCEPT
                !.calls = Append(req[r].calls, "synthesis"),
                !.audio_generator = [chunks |-> elevenlabs.chunks,
                                     fails |-> elevenlabs.raises = "iter",
                                     message |-> elevenlabs.message],
                !.pc = "join"])
    /\ UNCHANGED Env

\* line 81
JoinAudio(r) ==
    /\ req[r].pc = "join"
    /\ IF req[r].audio_generator.fails
       THEN Set(r, [req[r] EXCEPT
                !.exc = Exception(req[r].audio_generator.message),
                !.pc = "except"])
       ELSE Set(r, [req[r] EXCEPT
                !.audio = Join(req[r].audio_generator.chunks),
                !.pc = "respond"])
    /\ UNCHANGED Env

\* line 82
Respond(r) ==
    /\ req[r].pc = "respond"
    /\ Set(r, [req[r] EXCEPT !.result = StreamingResponse(req[r].audio),
                             !.pc = "done"])
    /\ UNCHANGED Env

\* lines 84-89
Except(r) ==
    /\ req[r].pc = "except"
    /\ Set(r, [req[r] EXCEPT !.result = ErrorResponse(Handle(req[r].exc)),
                             !.pc = "done"])
    /\ UNCHANGED Env

Next ==
    \E r \in Requests :
        \/ Validate(r)
        \/ Read(r)
        \/ CheckEmpty(r)
        \/ Transcribe(r)
        \/ CheckStatus(r)
        \/ BuildPrompt(r)
        \/ Summarize(r)
        \/ Synthesize(r)
        \/ JoinAudio(r)
        \/ Respond(r)
        \/ Except(r)

Spec == Init /\ [][Next]_vars

ConcurrentSpec == InitConcurrent /\ [][Next]_vars

\* ------------------------------------------------------------ properties
Done(r) == req[r].pc = "done"
Arrived(r) == req[r].pc # "absent"

\* The declared type passes the type check, stated on the input alone: it is
\* absent or empty, or starts with "audio/", or is "application/octet-stream".
TypePasses(ct) ==
    \/ ct = NoneT
    \/ ct = <<>>
    \/ (Len(ct) >= 6 /\ SubSeq(ct, 1, 6) = AudioPrefix)
    \/ ct = OctetStream

\* The request's inputs take it to the transcription call, which returns.
Transcribed(r) ==
    /\ Arrived(r)
    /\ TypePasses(req[r].content_type)
    /\ req[r].upload # <<>>
    /\ ~transcriber.raises

\* The request's inputs take it to line 73.
ReachesSummarize(r) == Transcribed(r) /\ transcriber.status # "error"

\* The chunks in order, built from the last chunk backwards.
RECURSIVE Concatenation(_)
Concatenation(cs) ==
    IF Len(cs) = 0 THEN <<>>
    ELSE Concatenation(SubSeq(cs, 1, Len(cs) - 1)) \o cs[Len(cs)]

ProviderOrder == <<"transcription", "summarization", "synthesis">>
Called(r, name) == \E i \in 1..Len(req[r].calls) : req[r].calls[i] = name

\* C1 (as stated): every upload with a zero-length body ends in 400 with
\* "Uploaded file is empty" and no provider call, whatever the declared type.
C1_EmptyAlwaysEmptyPayload ==
    \A r \in Requests :
        (Done(r) /\ req[r].upload = <<>>) =>
            /\ req[r].result.status_code = 400
            /\ req[r].result.detail = EmptyDetail
            /\ req[r].calls = <<>>

\* C1 (amended): a zero-length upload whose declared type passes the type
\* check ends in 400 with "Uploaded file is empty"; one whose declared type
\* is present and fails the type check ends in 400 with the unsupported-type
\* detail, its body unread.  In both cases no provider is called.
C1_EmptyUpload ==
    \A r \in Requests :
        (Arrived(r) /\ req[r].upload = <<>>) =>
            /\ req[r].calls = <<>>
            /\ Done(r) =>
                /\ req[r].result.status_code = 400
                /\ req[r].result.media_type = "application/json"
                /\ IF TypePasses(req[r].content_type)
                   THEN req[r].result.detail = EmptyDetail
                   ELSE /\ req[r].result.detail =
                             FileTypePrefix \o req[r].content_type \o FileTypeSuffix
                        /\ ~req[r].body_read

C1_Witness ==
    \E r \in Requests :
        /\ Done(r)
        /\ req[r].upload = <<>>
        /\ req[r].content_type = AudioWav
        /\ req[r].result.status_code = 400
        /\ req[r].result.detail = EmptyDetail

\* C2: a non-empty upload of an accepted type, a transcript that is no error
\* with text T, a language model that echoes and a synthesis that yields B
\* end in 200, audio/mpeg, body B, with T inside the prompt.
C2_HappyPath ==
    \A r \in Requests :
        (/\ Done(r)
         /\ ReachesSummarize(r)
         /\ transcriber.text # NoneT
         /\ llm.kind = "echo"
         /\ elevenlabs.raises = "no") =>
            /\ req[r].result.status_code = 200
            /\ req[r].result.media_type = "audio/mpeg"
            /\ req[r].result.body = Concatenation(elevenlabs.chunks)
            /\ Contains(req[r].prompt, transcriber.text)

\* C3: a declared type that is present and neither starts with "audio/" nor
\* is "application/octet-stream" ends in 400 with the unsupported-type
\* detail; the body is never read and no provider is ever called.
C3_UnsupportedType ==
    \A r \in Requests :
        (Arrived(r) /\ ~TypePasses(req[r].content_type)) =>
            /\ ~req[r].body_read
            /\ req[r].calls = <<>>
            /\ Done(r) =>
                /\ req[r].result.status_code = 400
                /\ req[r].result.media_type = "application/json"
                /\ req[r].result.detail =
                       FileTypePrefix \o req[r].content_type \o FileTypeSuffix

C3_Witness ==
    \E r \in Requests :
        /\ Done(r)
        /\ req[r].content_type = AudioNoSlash
        /\ req[r].upload # <<>>
        /\ req[r].result.status_code = 400
        /\ Contains(req[r].result.detail, AudioNoSlash)

\* C4: when transcription returns the error status with diagnostic D, the
\* request ends in 500 with "Transcription failed: D", and summarization
\* and synthesis are never called.
C4_TranscriptionFailed ==
    \A r \in Requests :
        (Transcribed(r) /\ transcriber.status = "error") =>
            /\ ~Called(r, "summarization")
            /\ ~Called(r, "synthesis")
            /\ Done(r) =>
                /\ req[r].result.status_code = 500
                /\ req[r].result.detail =
                       TranscriptionFailedPrefix \o
                       (IF transcriber.error = NoneT THEN NoneStr
                        ELSE transcriber.error)
                /\ req[r].calls = <<"transcription">>

C4_Witness ==
    \E r \in Requests :
        /\ Done(r)
        /\ req[r].transcript.status = "error"
        /\ req[r].transcript.error = DiagD
        /\ req[r].result.status_code = 500
        /\ req[r].result.detail = TranscriptionFailedPrefix \o DiagD

\* The message of the exception line 73 raises, if it raises.
SummarizeRaises(r) == ReachesSummarize(r) /\ (~llm_defined \/ llm.kind = "raise")
SummarizeMessage == IF ~llm_defined THEN NameErrorMessage ELSE llm.text

DeliberateError(r) ==
    IF ~TypePasses(req[r].content_type)
    THEN [status_code |-> 400,
          detail |-> FileTypePrefix \o req[r].content_type \o FileTypeSuffix]
    ELSE IF req[r].upload = <<>>
    THEN [status_code |-> 400, detail |-> EmptyDetail]
    ELSE IF ~transcriber.raises /\ transcriber.status = "error"
    THEN [status_code |-> 500,
          detail |-> TranscriptionFailedPrefix \o
                     (IF transcriber.error = NoneT THEN NoneStr
                      ELSE transcriber.error)]
    ELSE [status_code |-> 0, detail |-> <<>>]

\* C6: the two 400 validation errors and the 500 transcription error reach
\* the caller with status and detail unchanged, never as "Internal server
\* error: ..."; a detail starting so comes only from another failure.
C6_DeliberateErrorsPreserved ==
    \A r \in Requests :
        Done(r) =>
            /\ DeliberateError(r).status_code # 0 =>
                /\ req[r].result.status_code = DeliberateError(r).status_code
                /\ req[r].result.detail = DeliberateError(r).detail
            /\ (/\ Len(req[r].result.detail) >= Len(InternalErrorPrefix)
                /\ SubSeq(req[r].result.detail, 1, Len(InternalErrorPrefix))
                       = InternalErrorPrefix) =>
                /\ DeliberateError(r).status_code = 0
                /\ req[r].exc.kind \in {"Exception", "NameError"}
                /\ req[r].result.status_code = 500

C6_Witness ==
    \E r \in Requests :
        /\ Done(r)
        /\ req[r].exc = HTTPException(500, TranscriptionFailedPrefix \o Boom)
        /\ req[r].result.status_code = 500
        /\ req[r].result.detail = TranscriptionFailedPrefix \o Boom

\* C7: the body of a 200 response is the chunks the synthesis generator
\* yielded, concatenated in order: b"ABCD" for [b"AB", b"CD"].
C7_BodyIsConcatenation ==
    \A r \in Requests :
        (Done(r) /\ req[r].result.status_code = 200) =>
            /\ req[r].result.body = Concatenation(elevenlabs.chunks)
            /\ elevenlabs.chunks = <<ChunkAB, ChunkCD>> =>
                   req[r].result.body = <<65, 66, 67, 68>>

C7_Witness ==
    \E r \in Requests :
        /\ Done(r)
        /\ elevenlabs.chunks = <<ChunkAB, ChunkCD>>
        /\ req[r].result.status_code = 200
        /\ req[r].result.body = <<65, 66, 67, 68>>

\* C8: two requests with the same upload bytes and content type, sequential
\* or interleaved, against the same deterministic providers, end in the
\* same response.
C8_SameInputsSameResponse ==
    \A r1, r2 \in Requests :
        (/\ Done(r1)
         /\ Done(r2)
         /\ req[r1].content_type = req[r2].content_type
         /\ req[r1].upload = req[r2].upload) =>
            req[r1].result = req[r2].result

C8_Witness ==
    \E r1, r2 \in Requests :
        /\ r1 # r2
        /\ Done(r1)
        /\ Done(r2)
        /\ req[r1].content_type = req[r2].content_type
        /\ req[r1].upload = req[r2].upload
        /\ req[r1].result.status_code = 200
        /\ req[r1].result = req[r2].result

\* C9: within a request the provider calls are a prefix of transcription,
\* summarization, synthesis, each at most once; summarization only after a
\* transcript that is no error, synthesis only after summarization returned,
\* a 200 only after all three.
C9_CallOrder ==
    \A r \in Requests :
        /\ Len(req[r].calls) <= 3
        /\ req[r].calls = SubSeq(ProviderOrder, 1, Len(req[r].calls))
        /\ Called(r, "summarization") =>
               req[r].transcript.status \in {"completed", "queued", "processing"}
        /\ Called(r, "synthesis") =>
               /\ llm.kind # "raise"
               /\ req[r].response = (IF llm.kind = "echo" THEN req[r].prompt
                                     ELSE llm.text)
        /\ req[r].result.status_code = 200 =>
               /\ req[r].calls = ProviderOrder
               /\ ~req[r].audio_generator.fails

C9_Witness ==
    \E r \in Requests :
        /\ Done(r)
        /\ req[r].result.status_code = 200
        /\ req[r].calls = ProviderOrder

============================================================================
